---- MODULE Spec2Model ----
(***************************************************************************)
(* Credit-gated streaming chat of the mentor API: the users table with its *)
(* credit ledger, the conversations / messages / subscriptions tables, and *)
(* the request handlers that read and write them.                          *)
(*                                                                         *)
(* The tables live in a remote store (app/db/supabase.py) shared by every  *)
(* server process that serves the ASGI application, so each store call     *)
(* (`client.table(...)....execute()`) is one atomic step and the steps of  *)
(* different requests interleave freely.                                   *)
(***************************************************************************)
EXTENDS Integers, Sequences, FiniteSets, TLC

\* ---------------------------------------------------------------- bounds
MaxOps == 2
MaxChunks == 2
MaxBal == 3
NPersonas == 4
MaxTicks == 3
\* the setting RATE_LIMIT_PER_MINUTE (60 when unset)
rate_limit_per_minute == 3

\* ------------------------------------------------------- program constants
FreeCredits == 5
MonthlyCredits == 100
AnnualCredits == 1200
MaxAddCredits == 100
MonthlyDays == 30
AnnualDays == 365
\* OPENAI_MAX_RETRIES when unset
MAX_RETRIES == 3
TicksPerDay == 1000
message_limit == 50
window_size == 60
FreePersonas == 3

\* ------------------------------------------------------------ identifiers
\* UUIDs are positive integers; 0 stands for "no id given" (None) and a
\* negative value for a string that is not a UUID.
NoId == 0
BadUuid == 0 - 1
UserIds == {1}
AbsentUser == 2
UnknownPersona == 3
FirstPersona == 4
\* the personas table holds NPersonas rows, more than the free tier sees
PersonaIds == FirstPersona..(FirstPersona + NPersonas - 1)
LastPersona == FirstPersona + NPersonas - 1
\* the persona ids a request can name: every stored one and an unknown one
AskedPersonas == {UnknownPersona} \cup PersonaIds
\* the ledger runs ask for the first persona or an unknown one
LedgerPersonas == {UnknownPersona, FirstPersona}
\* the pitch runs ask for the first, the last or an unknown persona
PitchPersonas == {UnknownPersona, FirstPersona, LastPersona}
FirstFreshId == FirstPersona + NPersonas

\* the chat requests that can be in flight together, one per slot
Reqs == {1, 2}
Plans == {"free", "monthly", "annual"}
Paid == {"monthly", "annual"}
Chunks == {"x"}
Texts == {<<"h">>}
InitBalances == {1, FreeCredits}
AddAmounts == {0, MaxAddCredits, MaxAddCredits + 1}

Max(a, b) == IF a >= b THEN a ELSE b

VARIABLES
    users,          \* table users: id -> [plan, credits_left]
    subscriptions,  \* table subscriptions: set of rows
    conversations,  \* table conversations: set of rows
    messages,       \* table messages: set of rows
    now,            \* the clock read by datetime.now(); successive message
                    \* inserts read strictly increasing values
    req,            \* the chat requests in flight, one per slot
    hook,           \* the webhook request in flight
    addc,           \* the add-credits request in flight
    ops,            \* number of requests issued so far
    decRes,         \* result of the last direct decrement_user_credits call
    REQUEST_HISTORY,    \* rate limiter: identity -> recorded timestamps
    clock,              \* the value time.time() returns
    rate,               \* the last request seen by RateLimitingMiddleware
    view,               \* the last persona list / get answers per user
    pitch_evaluations,  \* table pitch_evaluations: set of rows
    pitch,              \* the pitch evaluation request in flight
    auth,               \* the request in flight through get_current_user
    call,               \* the completion call in flight
    surfaced,           \* the errors completion calls have surfaced so far
    pipe,               \* the request in flight through the middleware stack
    del                 \* the delete-conversation request in flight

\* the variables of the chat, ledger and webhook handlers
mainVars == <<users, subscriptions, conversations, messages, now,
              req, hook, addc, ops, decRes>>

\* the variables of the rate limiter, the persona routes and the pitch route
limVars == <<REQUEST_HISTORY, clock, rate, view, pitch_evaluations, pitch>>

\* the variables of the authentication dependency and the completion call
callVars == <<auth, call, surfaced>>

\* the variables of the requests that are modelled on their own
moreVars == <<auth, call, surfaced, pipe, del>>

\* everything the chat, ledger and webhook handlers leave alone
sideVars == <<limVars, moreVars>>

vars == <<users, subscriptions, conversations, messages, now,
          req, hook, addc, ops, decRes,
          REQUEST_HISTORY, clock, rate, view, pitch_evaluations, pitch,
          auth, call, surfaced, pipe, del>>

\* ------------------------------------------------------------- the ledger

PLAN_CREDITS(plan) ==
    CASE plan = "free" -> FreeCredits
      [] plan = "monthly" -> MonthlyCredits
      [] plan = "annual" -> AnnualCredits
      [] OTHER -> 0

\* check_user_credits: "404" when the row is absent, else the boolean.
check_user_credits(tbl, uid) ==
    IF uid \notin DOMAIN tbl THEN "404"
    ELSE IF tbl[uid].plan \in Paid THEN "true"
    ELSE IF tbl[uid].credits_left > 0 THEN "true" ELSE "false"

\* the value decrement_user_credits computes for a free user
new_credits_unfloored(credits_left) == credits_left - 1

new_credits(credits_left) == Max(0, credits_left - 1)

\* update({"credits_left": v}).eq("id", uid): touches only an existing row
UpdateCredits(tbl, uid, v) ==
    IF uid \in DOMAIN tbl
    THEN [tbl EXCEPT ![uid].credits_left = v]
    ELSE tbl

\* update({"plan": p, "credits_left": v}).eq("id", uid)
UpdatePlanCredits(tbl, uid, p, v) ==
    IF uid \in DOMAIN tbl
    THEN [tbl EXCEPT ![uid] = [plan |-> p, credits_left |-> v]]
    ELSE tbl

\* decrement_user_credits run to completion by one caller
decrement_user_credits_returns_old(tbl, uid) ==
    IF uid \notin DOMAIN tbl
    THEN [users |-> tbl, err |-> "404", ret |-> 0]
    ELSE IF tbl[uid].plan \in Paid
    THEN [users |-> tbl, err |-> "none", ret |-> tbl[uid].credits_left]
    ELSE [users |-> UpdateCredits(tbl, uid, new_credits(tbl[uid].credits_left)),
          err |-> "none",
          ret |-> tbl[uid].credits_left]

decrement_user_credits(tbl, uid) ==
    IF uid \notin DOMAIN tbl
    THEN [users |-> tbl, err |-> "404", ret |-> 0]
    ELSE IF tbl[uid].plan \in Paid
    THEN [users |-> tbl, err |-> "none", ret |-> tbl[uid].credits_left]
    ELSE [users |-> UpdateCredits(tbl, uid, new_credits(tbl[uid].credits_left)),
          err |-> "none",
          ret |-> new_credits(tbl[uid].credits_left)]

\* ------------------------------------------------------- middleware result
\* BaseHTTPMiddleware sends what dispatch returns; an HTTPException object
\* that is returned (not raised) is no response, and the server answers 500.
SendReturned(obj) ==
    IF obj.kind = "Response" THEN obj.status ELSE 500

\* --------------------------------------------------------------- messages
\* messages of a conversation ordered by created_at ascending, first `limit`
RECURSIVE SortByCreatedAt(_)
SortByCreatedAt(S) ==
    IF S = {} THEN <<>>
    ELSE LET m == CHOOSE x \in S : \A y \in S : x.created_at <= y.created_at
         IN <<m>> \o SortByCreatedAt(S \ {m})

Take(s, n) == SubSeq(s, 1, IF Len(s) < n THEN Len(s) ELSE n)

RECURSIVE Reverse(_)
Reverse(s) == IF s = <<>> THEN <<>> ELSE Append(Reverse(Tail(s)), Head(s))

listMessages_desc(cid, limit) ==
    Take(Reverse(SortByCreatedAt({m \in messages : m.conversation_id = cid})),
         limit)

listMessages(cid, limit) ==
    Take(SortByCreatedAt({m \in messages : m.conversation_id = cid}), limit)

\* get_conversation_history(conversation_id, user_id, limit)
get_conversation_history(conversation_id, user_id, limit) ==
    Take(SortByCreatedAt({m \in messages :
                            /\ m.conversation_id = conversation_id
                            /\ m.user_id = user_id}), limit)

\* ------------------------------------------------------------------ state

\* uuid.uuid4(): a fresh identifier, the k-th one drawn by the request in
\* slot n; slot 0 is the webhook, which draws one per subscription row
uuid4(n, k) == FirstFreshId + Max(3, MaxOps) * n + k

IdleReq ==
    [pc |-> "idle", n |-> 0, user_id |-> NoId, persona_id |-> NoId,
     conversation_id |-> NoId, message |-> <<>>,
     rd |-> [plan |-> "free", credits_left |-> 0],
     user_message_id |-> NoId, ai_message_id |-> NoId,
     history |-> <<>>, full_response |-> <<>>, out |-> <<>>,
     resp |-> 0, ending |-> "none", decs |-> 0, log |-> <<>>]

IdleHook == [pc |-> "idle", n |-> 0, user_id |-> NoId, plan |-> "free", resp |-> 0,
             event |-> "", sub_id |-> NoId, applied |-> FALSE,
             failed |-> FALSE, logged |-> FALSE]
IdleAdd == [pc |-> "idle", user_id |-> NoId, credits |-> 0, current |-> 0,
            resp |-> 0]
NoDecRes == [uid |-> NoId, err |-> "none", ret |-> 0, before |-> 0,
             plan |-> "none"]

\* REQUEST_HISTORY = {}
EmptyHistory == [i \in {} |-> <<>>]
NoRate == [identity |-> "", at |-> 0, count |-> 0, limited |-> FALSE,
           passed |-> FALSE, resp |-> 0, retry_after |-> 0, rejected |-> 0]
NoView == [u \in UserIds |-> [list |-> <<>>, listed |-> FALSE,
                              persona_id |-> NoId, resp |-> 0]]
IdlePitch == [pc |-> "idle", user_id |-> NoId, persona_id |-> NoId,
              resp |-> 0, completions |-> 0]

IdleAuth == [pc |-> "idle", path |-> "", header |-> "none", token |-> "",
             sub |-> NoId, resp |-> 0, entered |-> FALSE]

IdleCall == [pc |-> "idle", via |-> "", attempts |-> 0, first |-> "",
             last |-> "", ok |-> FALSE, status |-> 0, detail |-> ""]

IdleDel == [pc |-> "idle", user_id |-> NoId, conversation_id |-> NoId,
            at |-> "", resp |-> 0]

IdlePipe == [pc |-> "idle", path |-> "", identity |-> "", reads |-> 0,
             idp |-> 0, limited |-> FALSE, resp |-> 0]

InitSide ==
    /\ REQUEST_HISTORY = EmptyHistory
    /\ clock = 0
    /\ rate = NoRate
    /\ view = NoView
    /\ pitch_evaluations = {}
    /\ pitch = IdlePitch
    /\ auth = IdleAuth
    /\ call = IdleCall
    /\ surfaced = {}
    /\ pipe = IdlePipe
    /\ del = IdleDel

Init ==
    /\ InitSide
    /\ users \in [UserIds -> [plan : {"free"}, credits_left : InitBalances]]
    /\ subscriptions = {}
    /\ conversations = {}
    /\ messages = {}
    /\ now = 1
    /\ req = [r \in Reqs |-> IdleReq]
    /\ hook = IdleHook
    /\ addc = IdleAdd
    /\ ops = 0
    /\ decRes = NoDecRes

Step(r, label) == Append(req[r].log, label)

\* ------------------------------------------------------------- chat turn

\* the store's foreign key from messages.conversation_id to conversations.id:
\* the conversation a message row names must be present
ConversationExists(c) == \E cv \in conversations : cv.id = c

\* a client issues POST /api/chat with a valid bearer token, for one of the
\* personas in asked
ChatStartFor(r, asked) ==
    /\ req[r].pc = "idle"
    /\ \A q \in Reqs : q < r => req[q].pc # "idle"
    /\ ops < MaxOps
    /\ \E u \in DOMAIN users, p \in asked,
          c \in {NoId} \cup {cv.id : cv \in conversations}, m \in Texts :
         req' = [req EXCEPT ![r] = [IdleReq EXCEPT !.pc = "mw_credit", !.n = r,
                                     !.user_id = u, !.persona_id = p,
                                     !.conversation_id = c, !.message = m]]
    /\ ops' = ops + 1
    /\ UNCHANGED <<sideVars, users, subscriptions, conversations, messages, now,
                   hook, addc, decRes>>

\* the requests of the ledger runs ask for the first persona or an unknown one
ChatStart(r) == ChatStartFor(r, LedgerPersonas)

\* CreditRequiredMiddleware.dispatch on a credit path
CreditMiddleware(r) ==
    /\ req[r].pc = "mw_credit"
    /\ LET has == check_user_credits(users, req[r].user_id) IN
         IF has = "true"
         THEN req' = [req EXCEPT ![r].pc = "check"]
         ELSE req' = [req EXCEPT ![r].pc = "done",
                        ![r].ending = "rejected",
                        ![r].resp = SendReturned(
                            [kind |-> "HTTPException",
                             status |-> IF has = "false" THEN 402 ELSE 401])]
    /\ UNCHANGED <<sideVars, users, subscriptions, conversations, messages, now,
                   hook, addc, ops, decRes>>

\* chat: has_credits = await check_user_credits(user_id)
ChatCheck(r) ==
    /\ req[r].pc = "check"
    /\ LET has == check_user_credits(users, req[r].user_id) IN
         IF has = "true"
         THEN req' = [req EXCEPT ![r].pc = "persona",
                                 ![r].log = Step(r, "check")]
         ELSE req' = [req EXCEPT ![r].pc = "done",
                        ![r].ending = "rejected",
                        ![r].resp = IF has = "false" THEN 402 ELSE 404]
    /\ UNCHANGED <<sideVars, users, subscriptions, conversations, messages, now,
                   hook, addc, ops, decRes>>

\* chat looking the persona up only after it has created the conversation
ChatPersona_after_conversation(r) ==
    /\ req[r].pc = "persona"
    /\ IF req[r].persona_id \in PersonaIds
       THEN /\ req' = [req EXCEPT ![r].pc = "conv"]
            /\ UNCHANGED conversations
       ELSE /\ conversations' = conversations \cup
                   {[id |-> uuid4(req[r].n, 0), user_id |-> req[r].user_id,
                     persona_id |-> req[r].persona_id,
                     created_at |-> now, last_message_at |-> now]}
            /\ req' = [req EXCEPT ![r].pc = "done", ![r].ending = "rejected",
                                  ![r].resp = 404]
    /\ UNCHANGED <<sideVars, users, subscriptions, messages, now,
                   hook, addc, ops, decRes>>

\* chat: persona = await get_persona(chat_request.persona_id)
ChatPersona(r) ==
    /\ req[r].pc = "persona"
    /\ IF req[r].persona_id \in PersonaIds
       THEN req' = [req EXCEPT ![r].pc = "conv"]
       ELSE req' = [req EXCEPT ![r].pc = "done", ![r].ending = "rejected",
                               ![r].resp = 404]
    /\ UNCHANGED <<sideVars, users, subscriptions, conversations, messages, now,
                   hook, addc, ops, decRes>>

\* chat: get or create the conversation
ChatConv(r) ==
    /\ req[r].pc = "conv"
    /\ IF req[r].conversation_id = NoId
       THEN /\ conversations' = conversations \cup
                   {[id |-> uuid4(req[r].n, 0), user_id |-> req[r].user_id,
                     persona_id |-> req[r].persona_id,
                     created_at |-> now, last_message_at |-> now]}
            /\ req' = [req EXCEPT ![r].pc = "user_msg",
                                  ![r].conversation_id = uuid4(req[r].n, 0),
                                  ![r].log = Step(r, "conversation")]
       ELSE /\ conversations' =
                   {IF cv.id = req[r].conversation_id
                    THEN [cv EXCEPT !.last_message_at = now] ELSE cv :
                    cv \in conversations}
            /\ req' = [req EXCEPT ![r].pc = "user_msg",
                                  ![r].log = Step(r, "conversation")]
    /\ UNCHANGED <<sideVars, users, subscriptions, messages, now, hook, addc, ops, decRes>>

\* chat: save the user message
ChatUserMsg_then_history(r) ==
    /\ req[r].pc = "user_msg"
    /\ messages' = messages \cup
          {[id |-> uuid4(req[r].n, 1), user_id |-> req[r].user_id,
            persona_id |-> req[r].persona_id,
            conversation_id |-> req[r].conversation_id,
            content |-> req[r].message, is_user |-> TRUE,
            created_at |-> now, finalized |-> FALSE]}
    /\ now' = now + 1
    /\ req' = [req EXCEPT ![r].pc = "history",
                          ![r].user_message_id = uuid4(req[r].n, 1),
                          ![r].log = Step(r, "user_message")]
    /\ UNCHANGED <<sideVars, users, subscriptions, conversations, hook, addc, ops, decRes>>

ChatUserMsg(r) ==
    /\ req[r].pc = "user_msg"
    /\ IF ConversationExists(req[r].conversation_id)
       THEN /\ messages' = messages \cup
                  {[id |-> uuid4(req[r].n, 1), user_id |-> req[r].user_id,
                    persona_id |-> req[r].persona_id,
                    conversation_id |-> req[r].conversation_id,
                    content |-> req[r].message, is_user |-> TRUE,
                    created_at |-> now, finalized |-> FALSE]}
            /\ now' = now + 1
            /\ req' = [req EXCEPT ![r].pc = "dec_read",
                                  ![r].user_message_id = uuid4(req[r].n, 1),
                                  ![r].log = Step(r, "user_message")]
       ELSE \* the insert violates the foreign key: the handler raises
            /\ req' = [req EXCEPT ![r].pc = "done", ![r].ending = "store_error",
                                  ![r].resp = 500]
            /\ UNCHANGED <<messages, now>>
    /\ UNCHANGED <<sideVars, users, subscriptions, conversations, hook, addc, ops, decRes>>

\* decrement_user_credits: the select of plan and credits_left
ChatDecRead_no_exemption(r) ==
    /\ req[r].pc = "dec_read"
    /\ IF req[r].user_id \notin DOMAIN users
       THEN req' = [req EXCEPT ![r].pc = "done", ![r].ending = "error",
                               ![r].resp = 404]
       ELSE req' = [req EXCEPT ![r].pc = "dec_write",
                               ![r].rd = users[req[r].user_id]]
    /\ UNCHANGED <<sideVars, users, subscriptions, conversations, messages, now,
                   hook, addc, ops, decRes>>

ChatDecRead(r) ==
    /\ req[r].pc = "dec_read"
    /\ IF req[r].user_id \notin DOMAIN users
       THEN req' = [req EXCEPT ![r].pc = "done", ![r].ending = "error",
                               ![r].resp = 404]
       ELSE IF users[req[r].user_id].plan \in Paid
       THEN req' = [req EXCEPT ![r].pc = "history",
                               ![r].rd = users[req[r].user_id],
                               ![r].log = Step(r, "decrement")]
       ELSE req' = [req EXCEPT ![r].pc = "dec_write",
                               ![r].rd = users[req[r].user_id]]
    /\ UNCHANGED <<sideVars, users, subscriptions, conversations, messages, now,
                   hook, addc, ops, decRes>>

\* decrement_user_credits: the update with the value computed from the select
ChatDecWrite(r) ==
    /\ req[r].pc = "dec_write"
    /\ users' = UpdateCredits(users, req[r].user_id,
                              new_credits(req[r].rd.credits_left))
    /\ req' = [req EXCEPT ![r].pc = "history", ![r].decs = @ + 1,
                          ![r].log = Step(r, "decrement")]
    /\ UNCHANGED <<sideVars, subscriptions, conversations, messages, now,
                   hook, addc, ops, decRes>>

\* chat: history = await get_conversation_history(user_id, conversation_id),
\* then the StreamingResponse is returned
ChatHistory(r) ==
    /\ req[r].pc = "history"
    /\ req' = [req EXCEPT ![r].pc = "gen_start", ![r].resp = 200,
                 ![r].history = get_conversation_history(
                                   req[r].user_id, req[r].conversation_id, 10)]
    /\ UNCHANGED <<sideVars, users, subscriptions, conversations, messages, now,
                   hook, addc, ops, decRes>>

\* response_generator: save the assistant placeholder
ChatPlaceholder(r) ==
    /\ req[r].pc = "gen_start"
    /\ IF ConversationExists(req[r].conversation_id)
       THEN /\ messages' = messages \cup
                  {[id |-> uuid4(req[r].n, 2), user_id |-> req[r].user_id,
                    persona_id |-> req[r].persona_id,
                    conversation_id |-> req[r].conversation_id,
                    content |-> <<>>, is_user |-> FALSE,
                    created_at |-> now, finalized |-> FALSE]}
            /\ now' = now + 1
            /\ req' = [req EXCEPT ![r].pc = "stream",
                                  ![r].ai_message_id = uuid4(req[r].n, 2),
                                  ![r].log = Step(r, "placeholder")]
       ELSE \* the insert violates the foreign key: the generator raises
            /\ req' = [req EXCEPT ![r].pc = "done", ![r].ending = "store_error"]
            /\ UNCHANGED <<messages, now>>
    /\ UNCHANGED <<sideVars, users, subscriptions, conversations, hook, addc, ops, decRes>>

\* response_generator yielding a chunk it does not accumulate
ChatChunk_unaccumulated(r) ==
    /\ req[r].pc = "stream"
    /\ Len(req[r].out) < MaxChunks
    /\ \E chunk \in Chunks :
         req' = [req EXCEPT ![r].out = Append(@, chunk),
                            ![r].log = Step(r, "chunk")]
    /\ UNCHANGED <<sideVars, users, subscriptions, conversations, messages, now,
                   hook, addc, ops, decRes>>

\* response_generator: one chunk arrives, is accumulated and yielded
ChatChunk(r) ==
    /\ req[r].pc = "stream"
    /\ Len(req[r].full_response) < MaxChunks
    /\ \E chunk \in Chunks :
         req' = [req EXCEPT ![r].full_response = Append(@, chunk),
                            ![r].out = Append(@, chunk),
                            ![r].log = Step(r, "chunk")]
    /\ UNCHANGED <<sideVars, users, subscriptions, conversations, messages, now,
                   hook, addc, ops, decRes>>

\* get_persona_completion raises (before the first chunk or in mid-stream):
\* the exception leaves response_generator
ChatStreamError(r) ==
    /\ req[r].pc = "stream"
    /\ req' = [req EXCEPT ![r].pc = "done", ![r].ending = "provider_error"]
    /\ UNCHANGED <<sideVars, users, subscriptions, conversations, messages, now,
                   hook, addc, ops, decRes>>

\* the client disconnects: the streaming task is cancelled at its await
ClientDisconnect(r) ==
    /\ req[r].pc \in {"gen_start", "stream"}
    /\ req' = [req EXCEPT ![r].pc = "done", ![r].ending = "disconnected"]
    /\ UNCHANGED <<sideVars, users, subscriptions, conversations, messages, now,
                   hook, addc, ops, decRes>>

\* response_generator: the stream ends, the async for loop is left and the
\* placeholder is updated with the complete content
ChatFinalize_by_conversation(r) ==
    /\ req[r].pc = "stream"
    /\ messages' = {IF m.conversation_id = req[r].conversation_id /\ ~m.is_user
                    THEN [m EXCEPT !.content = req[r].full_response,
                                   !.finalized = TRUE]
                    ELSE m : m \in messages}
    /\ req' = [req EXCEPT ![r].pc = "emit_done",
                          ![r].log = Step(r, "finalize")]
    /\ UNCHANGED <<sideVars, users, subscriptions, conversations, now,
                   hook, addc, ops, decRes>>

ChatFinalize(r) ==
    /\ req[r].pc = "stream"
    /\ messages' = {IF m.id = req[r].ai_message_id
                    THEN [m EXCEPT !.content = req[r].full_response,
                                   !.finalized = TRUE]
                    ELSE m : m \in messages}
    /\ req' = [req EXCEPT ![r].pc = "emit_done",
                          ![r].log = Step(r, "finalize")]
    /\ UNCHANGED <<sideVars, users, subscriptions, conversations, now,
                   hook, addc, ops, decRes>>

\* response_generator: yield the [DONE] sentinel
ChatDone(r) ==
    /\ req[r].pc = "emit_done"
    /\ req' = [req EXCEPT ![r].pc = "done", ![r].ending = "completed",
                          ![r].out = Append(@, "[DONE]")]
    /\ UNCHANGED <<sideVars, users, subscriptions, conversations, messages, now,
                   hook, addc, ops, decRes>>

ChatTurn(r) ==
    \/ ChatStart(r) \/ CreditMiddleware(r) \/ ChatCheck(r) \/ ChatPersona(r)
    \/ ChatConv(r) \/ ChatUserMsg(r) \/ ChatDecRead(r) \/ ChatDecWrite(r)
    \/ ChatHistory(r) \/ ChatPlaceholder(r) \/ ChatChunk(r)
    \/ ChatStreamError(r) \/ ClientDisconnect(r)
    \/ ChatFinalize(r) \/ ChatDone(r)

\* ------------------------------------------------------------ add-credits

\* add_credits: validation, then the select of the current balance
AddCreditsCall ==
    /\ addc.pc = "idle"
    /\ ops < MaxOps
    /\ \E u \in DOMAIN users, credits \in AddAmounts :
         IF credits <= 0 \/ credits > MaxAddCredits
         THEN addc' = [IdleAdd EXCEPT !.user_id = u, !.credits = credits,
                                      !.resp = 400]
         ELSE addc' = [pc |-> "write", user_id |-> u, credits |-> credits,
                       current |-> users[u].credits_left, resp |-> 0]
    /\ ops' = ops + 1
    /\ UNCHANGED <<sideVars, users, subscriptions, conversations, messages, now,
                   req, hook, decRes>>

\* add_credits: the update with current_credits + credits
AddCreditsWrite ==
    /\ addc.pc = "write"
    /\ users' = UpdateCredits(users, addc.user_id, addc.current + addc.credits)
    /\ addc' = [addc EXCEPT !.pc = "idle", !.resp = 200]
    /\ UNCHANGED <<sideVars, subscriptions, conversations, messages, now,
                   req, hook, ops, decRes>>

\* ------------------------------------------------------------ update-plan

\* update_plan: one update of plan and credits_left
UpdatePlan ==
    /\ ops < MaxOps
    /\ \E u \in DOMAIN users, plan \in Plans :
         users' = UpdatePlanCredits(users, u, plan,
                     IF plan = "monthly" THEN MonthlyCredits
                     ELSE IF plan = "annual" THEN AnnualCredits
                     ELSE FreeCredits)
    /\ ops' = ops + 1
    /\ UNCHANGED <<sideVars, subscriptions, conversations, messages, now,
                   req, hook, addc, decRes>>

\* ---------------------------------------------------------------- webhook

HookEvents == {"charge.success", "charge.failed", "not json"}
HookUsers == {BadUuid, NoId} \cup UserIds \cup {AbsentUser}
HookPlans == Plans \cup {"gold", ""}

\* subscription dates are kept with the precision of a day
DayOf(t) == t \div TicksPerDay

create_subscription_from_webhook_unchecked(event, user_id, plan, t, built) ==
    IF ~built THEN [ok |-> FALSE, err |-> "raised"]
    ELSE [ok |-> TRUE, err |-> "none", user_id |-> user_id, plan |-> plan,
          status |-> "active", start_date |-> DayOf(t),
          end_date |-> DayOf(t) + (IF plan = "monthly" THEN MonthlyDays
                                   ELSE AnnualDays)]

\* PaystackService.create_subscription_from_webhook; ok = FALSE is None when
\* err is "none" (returned silently) or "printed" (ValueError caught and
\* printed), and an exception leaving the method when err is "raised".
\* SubscriptionCreate declares plan as Union[PlanType.MONTHLY,
\* PlanType.ANNUAL], a union of forward references to the names monthly and
\* annual: built tells whether the validation library accepts the arguments
\* or raises its configuration error, which is no ValueError.
create_subscription_from_webhook(event, user_id, plan, t, built) ==
    IF event # "charge.success" THEN [ok |-> FALSE, err |-> "none"]
    ELSE IF user_id = NoId \/ plan = "" THEN [ok |-> FALSE, err |-> "none"]
    ELSE IF user_id = BadUuid \/ plan \notin Plans
    THEN [ok |-> FALSE, err |-> "printed"]
    ELSE IF ~built THEN [ok |-> FALSE, err |-> "raised"]
    ELSE IF plan \notin Paid THEN [ok |-> FALSE, err |-> "printed"]
    ELSE [ok |-> TRUE, err |-> "none", user_id |-> user_id, plan |-> plan,
          status |-> "active", start_date |-> DayOf(t),
          end_date |-> DayOf(t) + (IF plan = "monthly" THEN MonthlyDays
                                   ELSE AnnualDays)]

\* paystack_webhook, the except clause: print the error, answer success
HandlerExcept_silent(h) ==
    [h EXCEPT !.pc = "idle", !.resp = 200, !.failed = TRUE]

HandlerExcept(h) ==
    [h EXCEPT !.pc = "idle", !.resp = 200, !.failed = TRUE, !.logged = TRUE]

\* paystack_webhook: parse the payload and insert the subscription row;
\* stored = FALSE is a store call that raises
HookReceiveFor(events, uids, plans) ==
    /\ hook.pc = "idle"
    /\ ops < MaxOps
    /\ \E event \in events, u \in uids, plan \in plans,
          built \in BOOLEAN, stored \in BOOLEAN :
         LET sub == create_subscription_from_webhook(event, u, plan, now, built)
             h == [IdleHook EXCEPT !.event = event, !.user_id = u,
                                   !.plan = plan]
         IN
           IF event = "not json"
           THEN /\ hook' = HandlerExcept(h)
                /\ UNCHANGED subscriptions
           ELSE IF sub.ok /\ stored
           THEN /\ subscriptions' = subscriptions \cup
                      {[id |-> uuid4(0, Cardinality(subscriptions)),
                        user_id |-> sub.user_id,
                        plan |-> sub.plan, status |-> sub.status,
                        start_date |-> sub.start_date,
                        end_date |-> sub.end_date]}
                /\ hook' = [h EXCEPT !.pc = "update",
                              !.sub_id = uuid4(0, Cardinality(subscriptions))]
           ELSE /\ hook' = IF sub.ok \/ sub.err = "raised"
                           THEN HandlerExcept(h)
                           ELSE IF sub.err = "printed"
                           THEN [h EXCEPT !.resp = 200, !.failed = TRUE,
                                          !.logged = TRUE]
                           ELSE [h EXCEPT !.resp = 200]
                /\ UNCHANGED subscriptions
    /\ ops' = ops + 1
    /\ UNCHANGED <<sideVars, users, conversations, messages, now, req, addc, decRes>>

\* the webhooks of the ledger runs are successful charges of a user for a
\* paid plan
HookReceive == HookReceiveFor({"charge.success"}, UserIds, Paid)

\* any payload
HookReceiveAny == HookReceiveFor(HookEvents, HookUsers, HookPlans)

\* paystack_webhook: update the user's plan and credits, answer success;
\* stored = FALSE is a store call that raises
HookUpdate ==
    /\ hook.pc = "update"
    /\ \E stored \in BOOLEAN :
         IF stored
         THEN /\ users' = UpdatePlanCredits(users, hook.user_id, hook.plan,
                                            PLAN_CREDITS(hook.plan))
              /\ hook' = [hook EXCEPT !.pc = "idle", !.resp = 200,
                                      !.applied = TRUE]
         ELSE /\ users' = users
              /\ hook' = HandlerExcept(hook)
    /\ UNCHANGED <<sideVars, subscriptions, conversations, messages, now,
                   req, addc, ops, decRes>>

\* ---------------------------------------------------------- specification

Next ==
    \/ \E r \in Reqs : ChatTurn(r)
    \/ AddCreditsCall \/ AddCreditsWrite
    \/ UpdatePlan
    \/ HookReceive \/ HookUpdate

Spec == Init /\ [][Next]_vars

\* the users a direct decrement can name: a stored one and an absent one
DecrementUsers == UserIds \cup {AbsentUser}

\* the rows a users table can hold
LedgerRows ==
    [plan : {"free"}, credits_left : 0..MaxBal]
      \cup {[plan |-> "monthly", credits_left |-> MonthlyCredits],
            [plan |-> "annual", credits_left |-> AnnualCredits]}

\* ------------------------------------- decrement_user_credits on its own

InitDecrement ==
    /\ InitSide
    /\ users \in UNION {[S -> LedgerRows] :
                          S \in SUBSET DecrementUsers}
    /\ subscriptions = {}
    /\ conversations = {}
    /\ messages = {}
    /\ now = 1
    /\ req = [r \in Reqs |-> IdleReq]
    /\ hook = IdleHook
    /\ addc = IdleAdd
    /\ ops = 0
    /\ decRes = NoDecRes

\* one complete call decrement_user_credits(uid)
DecrementCall(uid) ==
    /\ LET res == decrement_user_credits(users, uid) IN
         /\ users' = res.users
         /\ decRes' = [uid |-> uid, err |-> res.err, ret |-> res.ret,
                       before |-> IF uid \in DOMAIN users
                                  THEN users[uid].credits_left ELSE 0,
                       plan |-> IF uid \in DOMAIN users
                                THEN users[uid].plan ELSE "none"]
    /\ UNCHANGED <<sideVars, subscriptions, conversations, messages, now,
                   req, hook, addc, ops>>

NextDecrement == \E uid \in DecrementUsers : DecrementCall(uid)

SpecDecrement == InitDecrement /\ [][NextDecrement]_vars

\* ------------------------------------------------------- the rate limiter

\* the Authorization header of a signed-in caller, and the anonymous
\* identity made from the remote address
Identities == {"Bearer t", "anon:h"}

\* REQUEST_HISTORY.get(user_id, [])
HistoryOf(hist, user_id) ==
    IF user_id \in DOMAIN hist THEN hist[user_id] ELSE <<>>

\* hist with hist[user_id] = v
Assign(hist, user_id, v) ==
    [i \in DOMAIN hist \cup {user_id} |-> IF i = user_id THEN v ELSE hist[i]]

Within(ts, t) == ts > t - window_size
WithinOrAt(ts, t) == ts >= t - window_size

\* the timestamps of user_id that _is_rate_limited keeps at time t
recent_requests_inclusive(hist, user_id, t) ==
    SelectSeq(HistoryOf(hist, user_id), LAMBDA ts : WithinOrAt(ts, t))

recent_requests(hist, user_id, t) ==
    SelectSeq(HistoryOf(hist, user_id), LAMBDA ts : Within(ts, t))

\* RateLimitingMiddleware._is_rate_limited: stores the purged history and
\* tells whether it is full
is_rate_limited_over(hist, user_id, t) ==
    [history |-> Assign(hist, user_id, recent_requests(hist, user_id, t)),
     limited |-> Len(recent_requests(hist, user_id, t)) > rate_limit_per_minute]

is_rate_limited(hist, user_id, t) ==
    [history |-> Assign(hist, user_id, recent_requests(hist, user_id, t)),
     limited |-> Len(recent_requests(hist, user_id, t)) >= rate_limit_per_minute]

\* RateLimitingMiddleware._add_request
add_request(hist, user_id, t) ==
    Assign(hist, user_id, Append(HistoryOf(hist, user_id), t))

\* the Retry-After header the client receives: only a Response carries the
\* headers it was built with
SentRetryAfter(obj) ==
    IF obj.kind = "Response" THEN obj.retry_after ELSE 0

\* the requests of user_id rejected in a row just before this one, counted
\* up to one
RejectedBefore(user_id) ==
    IF rate.identity = user_id /\ rate.limited THEN 1 ELSE 0

\* RateLimitingMiddleware.dispatch for a request on a path under /api/
RateDispatch(user_id) ==
    /\ LET chk == is_rate_limited(REQUEST_HISTORY, user_id, clock)
           exc == [kind |-> "HTTPException", status |-> 429,
                   retry_after |-> window_size]
       IN
         IF chk.limited
         THEN /\ REQUEST_HISTORY' = chk.history
              /\ rate' = [identity |-> user_id, at |-> clock,
                          count |-> Len(chk.history[user_id]),
                          limited |-> TRUE, passed |-> FALSE,
                          resp |-> SendReturned(exc),
                          retry_after |-> SentRetryAfter(exc),
                          rejected |-> 1]
         ELSE /\ REQUEST_HISTORY' = add_request(chk.history, user_id, clock)
              /\ rate' = [identity |-> user_id, at |-> clock,
                          count |-> Len(chk.history[user_id]),
                          limited |-> FALSE, passed |-> TRUE,
                          resp |-> 0, retry_after |-> 0,
                          rejected |-> RejectedBefore(user_id)]
    /\ UNCHANGED <<mainVars, moreVars, clock, view, pitch_evaluations, pitch>>

\* half a window passes
RateTick ==
    /\ clock < MaxTicks * (window_size \div 2)
    /\ clock' = clock + (window_size \div 2)
    /\ UNCHANGED <<mainVars, moreVars, REQUEST_HISTORY, rate, view, pitch_evaluations,
                   pitch>>

NextRate == (\E user_id \in Identities : RateDispatch(user_id)) \/ RateTick

SpecRate == Init /\ [][NextRate]_vars

\* ------------------------------------------------------ the persona routes

Range(f) == {f[i] : i \in DOMAIN f}

\* client.table("personas").select(...).execute() carries no order clause:
\* the store may return the rows in any order, and need not repeat it
Orders == {o \in [1..NPersonas -> PersonaIds] : Range(o) = PersonaIds}

\* personas[:3]
FirstThree(o) == SubSeq(o, 1, FreePersonas)

\* the plan read by the persona routes, "free" when the user row is absent
PlanOf(tbl, uid) == IF uid \in DOMAIN tbl THEN tbl[uid].plan ELSE "free"

\* list_personas
ListPersonas(u) ==
    /\ \E o \in Orders :
         view' = [view EXCEPT ![u].list = IF PlanOf(users, u) = "free"
                                          THEN FirstThree(o) ELSE o,
                              ![u].listed = TRUE]
    /\ UNCHANGED <<mainVars, moreVars, REQUEST_HISTORY, clock, rate, pitch_evaluations,
                   pitch>>

\* get_persona of the persona routes
GetPersona(u, persona_id) ==
    /\ IF persona_id \notin PersonaIds
       THEN view' = [view EXCEPT ![u].persona_id = persona_id,
                                 ![u].resp = 404]
       ELSE IF u \in DOMAIN users /\ users[u].plan = "free"
       THEN \E o \in Orders :
              view' = [view EXCEPT ![u].persona_id = persona_id,
                         ![u].resp = IF persona_id \notin Range(FirstThree(o))
                                     THEN 402 ELSE 200]
       ELSE view' = [view EXCEPT ![u].persona_id = persona_id,
                                 ![u].resp = 200]
    /\ UNCHANGED <<mainVars, moreVars, REQUEST_HISTORY, clock, rate, pitch_evaluations,
                   pitch>>

NextPersonas ==
    \E u \in UserIds :
        \/ ListPersonas(u)
        \/ \E persona_id \in AskedPersonas :
              GetPersona(u, persona_id)

\* users on every plan
InitPlans ==
    /\ InitSide
    /\ users \in [UserIds -> LedgerRows]
    /\ subscriptions = {}
    /\ conversations = {}
    /\ messages = {}
    /\ now = 1
    /\ req = [r \in Reqs |-> IdleReq]
    /\ hook = IdleHook
    /\ addc = IdleAdd
    /\ ops = 0
    /\ decRes = NoDecRes

SpecPersonas == InitPlans /\ [][NextPersonas]_vars

\* ------------------------------------------- chat with any of the personas

\* a chat turn for any stored persona or an unknown one
ChatTurnAny(r) ==
    \/ ChatStartFor(r, AskedPersonas)
    \/ CreditMiddleware(r) \/ ChatCheck(r)
    \/ ChatPersona(r) \/ ChatConv(r) \/ ChatUserMsg(r) \/ ChatDecRead(r)
    \/ ChatDecWrite(r) \/ ChatHistory(r) \/ ChatPlaceholder(r)
    \/ ChatChunk(r) \/ ChatStreamError(r) \/ ClientDisconnect(r)
    \/ ChatFinalize(r) \/ ChatDone(r)

\* a user lists the personas and sends one chat request
NextAccess ==
    \/ \E u \in UserIds : ListPersonas(u)
    \/ ChatTurnAny(1)

SpecAccess == Init /\ [][NextAccess]_vars

\* --------------------------------------------------------- the pitch route

\* the fields of PersonaBasic, the model evaluate_pitch of the pitch route
\* builds from the persona row before it calls OpenAIService.evaluate_pitch
PersonaBasicFields == {"id", "name", "avatar_url", "description", "expertise"}

\* OpenAIService.evaluate_pitch(persona, pitch_text): the system message is
\* built from persona.prompt_template before the try block; answered tells
\* whether the provider call returns a completion
evaluate_pitch(fields, answered) ==
    IF "prompt_template" \notin fields
    THEN [err |-> "AttributeError", status |-> 500, calls |-> 0]
    ELSE IF answered
    THEN [err |-> "none", status |-> 0, calls |-> 1]
    ELSE [err |-> "HTTPException", status |-> 500, calls |-> 1]

\* a client issues POST /api/pitch/evaluate with a valid bearer token
PitchStart ==
    /\ pitch.pc = "idle"
    /\ ops < MaxOps
    /\ \E u \in DOMAIN users, p \in PitchPersonas :
         pitch' = [IdlePitch EXCEPT !.pc = "mw_credit", !.user_id = u,
                                    !.persona_id = p]
    /\ ops' = ops + 1
    /\ UNCHANGED <<moreVars, users, subscriptions, conversations, messages, now,
                   req, hook, addc, decRes, REQUEST_HISTORY, clock, rate, view,
                   pitch_evaluations>>

\* CreditRequiredMiddleware.dispatch: /api/pitch is a credit path
PitchCreditMiddleware ==
    /\ pitch.pc = "mw_credit"
    /\ LET has == check_user_credits(users, pitch.user_id) IN
         IF has = "true"
         THEN pitch' = [pitch EXCEPT !.pc = "handler"]
         ELSE pitch' = [pitch EXCEPT !.pc = "done",
                          !.resp = SendReturned(
                              [kind |-> "HTTPException",
                               status |-> IF has = "false" THEN 402 ELSE 401])]
    /\ UNCHANGED <<mainVars, moreVars, REQUEST_HISTORY, clock, rate, view,
                   pitch_evaluations>>

\* check_premium_access
check_premium_access(tbl, uid) ==
    IF uid \notin DOMAIN tbl THEN "404"
    ELSE IF tbl[uid].plan \in {"monthly", "annual"} THEN "true" ELSE "false"

\* evaluate_pitch of the pitch route
PitchEvaluate ==
    /\ pitch.pc = "handler"
    /\ \E answered \in BOOLEAN :
         LET is_premium == check_premium_access(users, pitch.user_id)
             evaluation == evaluate_pitch(PersonaBasicFields, answered)
         IN
           IF is_premium # "true"
           THEN /\ pitch' = [pitch EXCEPT !.pc = "done",
                               !.resp = IF is_premium = "false" THEN 402 ELSE 404]
                /\ UNCHANGED pitch_evaluations
           ELSE IF pitch.persona_id \notin PersonaIds
           THEN /\ pitch' = [pitch EXCEPT !.pc = "done", !.resp = 404]
                /\ UNCHANGED pitch_evaluations
           ELSE IF evaluation.err # "none"
           THEN /\ pitch' = [pitch EXCEPT !.pc = "done",
                               !.resp = evaluation.status,
                               !.completions = evaluation.calls]
                /\ UNCHANGED pitch_evaluations
           ELSE /\ pitch_evaluations' = pitch_evaluations \cup
                      {[id |-> uuid4(0, Cardinality(pitch_evaluations)),
                        user_id |-> pitch.user_id,
                        persona_id |-> pitch.persona_id, created_at |-> now]}
                /\ pitch' = [pitch EXCEPT !.pc = "done", !.resp = 201,
                                          !.completions = evaluation.calls]
    /\ UNCHANGED <<mainVars, moreVars, REQUEST_HISTORY, clock, rate, view>>

\* the client has its answer
PitchRelease ==
    /\ pitch.pc = "done"
    /\ pitch' = [pitch EXCEPT !.pc = "idle"]
    /\ UNCHANGED <<mainVars, moreVars, REQUEST_HISTORY, clock, rate, view,
                   pitch_evaluations>>

NextPitch ==
    PitchStart \/ PitchCreditMiddleware \/ PitchEvaluate \/ PitchRelease

SpecPitch == InitPlans /\ [][NextPitch]_vars

\* ----------------------------------------------- the webhook on its own

NextWebhook == HookReceiveAny \/ HookUpdate

SpecWebhook == InitPlans /\ [][NextWebhook]_vars

\* ------------------------------------------------------- authentication

\* the Authorization header of a request: absent, another scheme, or Bearer
AuthHeaders == {"Basic", "Bearer", "none"}
\* the token after "Bearer ": expired, not a JWT, without "sub", or valid
Tokens == {"expired", "garbage", "nosub", "valid"}
\* a route behind CreditRequiredMiddleware and one that is not
AuthPaths == {"/api/chat", "/api/personas"}
\* the subject of a valid token: a stored user or one with no users row
Subjects == UserIds \cup {AbsentUser}

\* any(path.startswith(credit_path) for credit_path in self.credit_paths)
IsCreditPath(path) == path \in {"/api/chat", "/api/pitch/evaluate"}

\* validate_jwt: the payload, or the status of the HTTPException it raises
\* for a jwt.PyJWTError
validate_jwt(token, sub) ==
    IF token \in {"expired", "garbage"}
    THEN [err |-> 401, sub |-> NoId]
    ELSE [err |-> 0, sub |-> IF token = "nosub" THEN NoId ELSE sub]

\* get_current_user: 0 when it returns the user id, else the status of the
\* HTTPException that leaves it. The "User not found" exception is raised
\* inside the try block whose `except Exception` turns it into a 500.
get_current_user(tbl, header, token, sub) ==
    IF header # "Bearer" THEN 401
    ELSE LET payload == validate_jwt(token, sub) IN
         IF payload.err # 0 THEN payload.err
         ELSE IF payload.sub = NoId THEN 401
         ELSE IF payload.sub \notin DOMAIN tbl THEN 500
         ELSE 0

\* a client sends a request to a route of a router that depends on
\* get_current_user
AuthStart ==
    /\ auth.pc = "idle"
    /\ \E path \in AuthPaths, header \in AuthHeaders, token \in Tokens,
          sub \in Subjects :
         auth' = [IdleAuth EXCEPT
                    !.pc = IF IsCreditPath(path) THEN "mw_credit" ELSE "dep",
                    !.path = path, !.header = header,
                    !.token = IF header = "Bearer" THEN token ELSE "",
                    !.sub = IF header = "Bearer" /\ token = "valid"
                            THEN sub ELSE NoId]
    /\ UNCHANGED <<mainVars, limVars, call, surfaced, pipe, del>>

\* CreditRequiredMiddleware.dispatch, the outermost middleware of a credit
\* path: it returns its HTTPException objects, and every failure of
\* client.auth.get_user or check_user_credits ends in `except Exception`
AuthCreditMiddleware ==
    /\ auth.pc = "mw_credit"
    /\ LET has == IF auth.header = "Bearer" /\ auth.token = "valid"
                  THEN check_user_credits(users, auth.sub)
                  ELSE "raised"
       IN IF has = "true"
          THEN auth' = [auth EXCEPT !.pc = "dep"]
          ELSE auth' = [auth EXCEPT !.pc = "done",
                          !.resp = SendReturned(
                              [kind |-> "HTTPException",
                               status |-> IF has = "false" THEN 402
                                          ELSE 401])]
    /\ UNCHANGED <<mainVars, limVars, call, surfaced, pipe, del>>

\* the router's dependency get_current_user, then the handler
AuthDependency ==
    /\ auth.pc = "dep"
    /\ LET st == get_current_user(users, auth.header, auth.token, auth.sub)
       IN IF st = 0
          THEN auth' = [auth EXCEPT !.pc = "done", !.entered = TRUE,
                                    !.resp = 200]
          ELSE auth' = [auth EXCEPT !.pc = "done", !.resp = st]
    /\ UNCHANGED <<mainVars, limVars, call, surfaced, pipe, del>>

\* the response has been sent
AuthRelease ==
    /\ auth.pc = "done"
    /\ auth' = IdleAuth
    /\ UNCHANGED <<mainVars, limVars, call, surfaced, pipe, del>>

NextAuth == AuthStart \/ AuthCreditMiddleware \/ AuthDependency \/ AuthRelease

SpecAuth == InitPlans /\ [][NextAuth]_vars

\* ------------------------------------------------- the completion call

\* what one openai.ChatCompletion.acreate can do: answer, or raise one of
\* the openai.error classes or asyncio.TimeoutError
Transient == {"APIConnectionError", "APIError", "RateLimitError",
              "ServiceUnavailableError", "Timeout", "asyncio.TimeoutError"}
NonTransient == {"AuthenticationError", "InvalidRequestError"}
Outcomes == {"ok"} \cup Transient \cup NonTransient

\* the two callers of acreate: the streaming chat completion calls it
\* directly, the pitch evaluation through _make_api_request
Callers == {"_make_api_request", "get_persona_completion"}

\* tenacity.retry_if_exception_type((...)) of _make_api_request
RetryTypes == {"APIConnectionError", "APIError", "RateLimitError",
               "ServiceUnavailableError", "Timeout"}

\* the body of _make_api_request: what one run of it returns or raises
make_api_request(outcome) ==
    CASE outcome = "ok" ->
           [raised |-> "none", status |-> 200, detail |-> ""]
      [] outcome \in {"APIError", "APIConnectionError", "RateLimitError",
                      "ServiceUnavailableError"} ->
           [raised |-> "HTTPException", status |-> 503,
            detail |-> "AI service temporarily unavailable"]
      [] outcome = "InvalidRequestError" ->
           [raised |-> "HTTPException", status |-> 400,
            detail |-> "Invalid request to AI service"]
      [] outcome = "AuthenticationError" ->
           [raised |-> "HTTPException", status |-> 500,
            detail |-> "AI service configuration error"]
      [] OTHER ->
           [raised |-> "HTTPException", status |-> 500,
            detail |-> "An unexpected error occurred"]

\* the try block of get_persona_completion around its own acreate call
get_persona_completion(outcome) ==
    CASE outcome = "ok" ->
           [raised |-> "none", status |-> 200, detail |-> ""]
      [] outcome = "asyncio.TimeoutError" ->
           [raised |-> "HTTPException", status |-> 504,
            detail |-> "AI service request timed out"]
      [] OTHER ->
           [raised |-> "HTTPException", status |-> 500,
            detail |-> "OpenAI API error"]

\* tenacity: run again when the exception that left the function is of a
\* retried type and attempts remain (stop_after_attempt(MAX_RETRIES))
tenacity_retries(raised, attempt) ==
    raised \in RetryTypes /\ attempt < MAX_RETRIES

ErrorClass(outcome) ==
    IF outcome \in Transient THEN "transient" ELSE "non-transient"

\* a handler asks for a completion
CallStart ==
    /\ call.pc = "idle"
    /\ \E via \in Callers : call' = [IdleCall EXCEPT !.pc = "attempt",
                                                      !.via = via]
    /\ UNCHANGED <<mainVars, limVars, auth, surfaced, pipe, del>>

\* one attempt: acreate answers or raises, the caller's except clauses turn
\* the exception into an HTTPException, and (for _make_api_request) tenacity
\* decides whether to run the function again
CallAttempt ==
    /\ call.pc = "attempt"
    /\ \E outcome \in Outcomes :
         LET res == IF call.via = "_make_api_request"
                    THEN make_api_request(outcome)
                    ELSE get_persona_completion(outcome)
             n == call.attempts + 1
             first == IF call.attempts = 0 THEN outcome ELSE call.first
         IN IF res.raised = "none"
            THEN /\ call' = [call EXCEPT !.pc = "done", !.attempts = n,
                               !.first = first, !.last = outcome,
                               !.ok = TRUE, !.status = res.status]
                 /\ surfaced' = surfaced
            ELSE IF call.via = "_make_api_request"
                    /\ tenacity_retries(res.raised, n)
            THEN /\ call' = [call EXCEPT !.attempts = n, !.first = first,
                                         !.last = outcome]
                 /\ surfaced' = surfaced
            ELSE /\ call' = [call EXCEPT !.pc = "done", !.attempts = n,
                               !.first = first, !.last = outcome,
                               !.status = res.status, !.detail = res.detail]
                 /\ surfaced' = surfaced \cup
                       {[via |-> call.via, class |-> ErrorClass(outcome),
                         status |-> res.status, detail |-> res.detail]}
    /\ UNCHANGED <<mainVars, limVars, auth, pipe, del>>

\* the caller has the result
CallRelease ==
    /\ call.pc = "done"
    /\ call' = IdleCall
    /\ UNCHANGED <<mainVars, limVars, auth, surfaced, pipe, del>>

NextCall == CallStart \/ CallAttempt \/ CallRelease

SpecCall == Init /\ [][NextCall]_vars

\* ------------------------------------------------------------ the prompt

\* persona.prompt_template of the stored persona
prompt_template(persona_id) == <<"template", persona_id>>

\* conversation_history[-10:]
LastN(s, n) == IF Len(s) <= n THEN s ELSE SubSeq(s, Len(s) - n + 1, Len(s))

\* OpenAIService.format_conversation_history
format_conversation_history(persona_id, user_message, conversation_history) ==
    <<[role |-> "system", content |-> prompt_template(persona_id)]>>
      \o [i \in 1..Len(LastN(conversation_history, 10)) |->
            [role |-> IF LastN(conversation_history, 10)[i].is_user
                      THEN "user" ELSE "assistant",
             content |-> LastN(conversation_history, 10)[i].content]]
      \o <<[role |-> "user", content |-> user_message]>>

\* the messages get_persona_completion sends for the turn in slot r
Prompt(r) ==
    format_conversation_history(req[r].persona_id, req[r].message,
                                req[r].history)

\* --------------------------------------------------- the middleware stack
\* app.add_middleware puts each middleware in front of the ones added
\* before it: CreditRequiredMiddleware, added last, is the outermost, then
\* RateLimitingMiddleware, then the router's dependency and the handler.

\* two credit-gated routes and one that is not
PipePaths == {"/api/chat", "/api/personas", "/api/pitch/evaluate"}

\* a request arrives, with the Authorization header of a stored user or
\* without one
PipeStart ==
    /\ pipe.pc = "idle"
    /\ \E path \in PipePaths, identity \in Identities :
         pipe' = [IdlePipe EXCEPT
                    !.pc = IF IsCreditPath(path) THEN "mw_credit"
                           ELSE "mw_rate",
                    !.path = path, !.identity = identity]
    /\ UNCHANGED <<mainVars, limVars, callVars, del>>

\* CreditRequiredMiddleware.dispatch: client.auth.get_user(token) asks the
\* identity provider and check_user_credits selects the users row, before
\* call_next hands the request to the rate limiter
PipeCreditMiddleware ==
    /\ pipe.pc = "mw_credit"
    /\ IF pipe.identity = "anon:h"
       THEN pipe' = [pipe EXCEPT !.pc = "done",
                       !.resp = SendReturned([kind |-> "HTTPException",
                                              status |-> 401])]
       ELSE \E u \in UserIds :
              LET has == check_user_credits(users, u) IN
              IF has = "true"
              THEN pipe' = [pipe EXCEPT !.pc = "mw_rate", !.idp = @ + 1,
                                        !.reads = @ + 1]
              ELSE pipe' = [pipe EXCEPT !.pc = "done", !.idp = @ + 1,
                              !.reads = @ + 1,
                              !.resp = SendReturned(
                                  [kind |-> "HTTPException",
                                   status |-> IF has = "false" THEN 402
                                              ELSE 401])]
    /\ UNCHANGED <<mainVars, limVars, callVars, del>>

\* RateLimitingMiddleware.dispatch
PipeRateLimit ==
    /\ pipe.pc = "mw_rate"
    /\ LET chk == is_rate_limited(REQUEST_HISTORY, pipe.identity, clock) IN
         IF chk.limited
         THEN /\ REQUEST_HISTORY' = chk.history
              /\ pipe' = [pipe EXCEPT !.pc = "done", !.limited = TRUE,
                            !.resp = SendReturned([kind |-> "HTTPException",
                                                   status |-> 429])]
         ELSE /\ REQUEST_HISTORY' = add_request(chk.history, pipe.identity,
                                                clock)
              /\ pipe' = [pipe EXCEPT !.pc = "dep"]
    /\ UNCHANGED <<mainVars, callVars, del, clock, rate, view,
                   pitch_evaluations, pitch>>

\* get_current_user: the token is decoded locally and the users row is
\* selected; then the handler runs
PipeDependency ==
    /\ pipe.pc = "dep"
    /\ IF pipe.identity = "anon:h"
       THEN pipe' = [pipe EXCEPT !.pc = "done", !.resp = 401]
       ELSE pipe' = [pipe EXCEPT !.pc = "done", !.reads = @ + 1,
                                 !.resp = 200]
    /\ UNCHANGED <<mainVars, limVars, callVars, del>>

\* the response has been sent
PipeRelease ==
    /\ pipe.pc = "done"
    /\ pipe' = IdlePipe
    /\ UNCHANGED <<mainVars, limVars, callVars, del>>

\* half a window passes
PipeTick ==
    /\ clock < MaxTicks * (window_size \div 2)
    /\ clock' = clock + (window_size \div 2)
    /\ UNCHANGED <<mainVars, moreVars, REQUEST_HISTORY, rate, view,
                   pitch_evaluations, pitch>>

NextPipe ==
    \/ PipeStart \/ PipeCreditMiddleware \/ PipeRateLimit \/ PipeDependency
    \/ PipeRelease \/ PipeTick

SpecPipe == Init /\ [][NextPipe]_vars

\* ------------------------------------------------- deleting a conversation

\* a second account, and a conversation id no row carries
SecondUser == uuid4(5, 0)
UnknownConversation == uuid4(5, 1)

\* the rows one completed chat turn of user u leaves behind, with ids of slot n
TurnConversation(n, u) ==
    [id |-> uuid4(n, 0), user_id |-> u, persona_id |-> FirstPersona,
     created_at |-> 1, last_message_at |-> 1]
TurnMessages(n, u) ==
    {[id |-> uuid4(n, 1), user_id |-> u, persona_id |-> FirstPersona,
      conversation_id |-> uuid4(n, 0), content |-> <<"h">>, is_user |-> TRUE,
      created_at |-> 1, finalized |-> FALSE],
     [id |-> uuid4(n, 2), user_id |-> u, persona_id |-> FirstPersona,
      conversation_id |-> uuid4(n, 0), content |-> <<"x">>, is_user |-> FALSE,
      created_at |-> 2, finalized |-> TRUE]}

\* two accounts that have each held one conversation with the first persona
InitConv ==
    /\ InitSide
    /\ users = [u \in UserIds \cup {SecondUser} |->
                  [plan |-> "free", credits_left |-> FreeCredits - 1]]
    /\ subscriptions = {}
    /\ conversations = {TurnConversation(3, 1), TurnConversation(4, SecondUser)}
    /\ messages = TurnMessages(3, 1) \cup TurnMessages(4, SecondUser)
    /\ now = 3
    /\ req = [r \in Reqs |-> IdleReq]
    /\ hook = IdleHook
    /\ addc = IdleAdd
    /\ ops = 0
    /\ decRes = NoDecRes

\* a client issues DELETE /api/conversations/{conversation_id}
DeleteStart ==
    /\ del.pc \in {"idle", "done"}
    /\ ops < MaxOps
    /\ \E u \in DOMAIN users,
          c \in {cv.id : cv \in conversations} \cup {UnknownConversation} :
         del' = [IdleDel EXCEPT !.pc = "verify", !.user_id = u,
                                !.conversation_id = c]
    /\ ops' = ops + 1
    /\ UNCHANGED <<limVars, callVars, pipe, users, subscriptions, conversations,
                   messages, now, req, hook, addc, decRes>>

\* delete_conversation: verify the conversation belongs to the user
DeleteVerify ==
    /\ del.pc = "verify"
    /\ IF \E cv \in conversations :
            cv.id = del.conversation_id /\ cv.user_id = del.user_id
       THEN del' = [del EXCEPT !.pc = "messages"]
       ELSE del' = [del EXCEPT !.pc = "done", !.resp = 404]
    /\ UNCHANGED <<limVars, callVars, pipe, mainVars>>

\* delete_conversation going on to the conversation row with the messages kept
DeleteMessages_kept ==
    /\ del.pc = "messages"
    /\ \E stored \in BOOLEAN :
         IF stored
         THEN /\ messages' = messages
              /\ del' = [del EXCEPT !.pc = "row"]
         ELSE /\ del' = [del EXCEPT !.pc = "done", !.resp = 500,
                                    !.at = "messages"]
              /\ UNCHANGED messages
    /\ UNCHANGED <<limVars, callVars, pipe, users, subscriptions, conversations,
                   now, req, hook, addc, ops, decRes>>

\* delete_conversation: delete the messages of the conversation, or the store
\* call raises
DeleteMessages ==
    /\ del.pc = "messages"
    /\ \E stored \in BOOLEAN :
         IF stored
         THEN /\ messages' = {m \in messages :
                                m.conversation_id # del.conversation_id}
              /\ del' = [del EXCEPT !.pc = "row"]
         ELSE /\ del' = [del EXCEPT !.pc = "done", !.resp = 500,
                                    !.at = "messages"]
              /\ UNCHANGED messages
    /\ UNCHANGED <<limVars, callVars, pipe, users, subscriptions, conversations,
                   now, req, hook, addc, ops, decRes>>

\* delete_conversation: delete the conversation row; the store call raises on
\* its own or because a message still names the row
DeleteRow ==
    /\ del.pc = "row"
    /\ \E stored \in BOOLEAN :
         IF stored /\ ~\E m \in messages :
                          m.conversation_id = del.conversation_id
         THEN /\ conversations' = {cv \in conversations :
                                     cv.id # del.conversation_id}
              /\ del' = [del EXCEPT !.pc = "done", !.resp = 204]
         ELSE /\ del' = [del EXCEPT !.pc = "done", !.resp = 500, !.at = "row"]
              /\ UNCHANGED conversations
    /\ UNCHANGED <<limVars, callVars, pipe, users, subscriptions, messages,
                   now, req, hook, addc, ops, decRes>>

\* deletes next to one chat turn that may name any conversation
NextConv ==
    \/ DeleteStart \/ DeleteVerify \/ DeleteMessages \/ DeleteRow
    \/ ChatTurnAny(1)

SpecConv == InitConv /\ [][NextConv]_vars

\* ================================================================ claims

\* the chat turn r has passed the handler's credit check and the persona
\* lookup and has not yet run its decrement
Admitted(r) == req[r].pc \in {"conv", "user_msg", "dec_read", "dec_write"}

\* the turn r has run decrement_user_credits to its end
Decremented(r) ==
    req[r].pc \in {"history", "gen_start", "stream", "emit_done"}
      \/ (req[r].pc = "done" /\ req[r].ending \notin {"rejected", "error"})

StoredMessage(id) == {m \in messages : m.id = id}

\* C1: in every reachable state every user's stored credits_left is an
\* integer >= 0, whatever chat turns, decrements, webhooks, add-credits and
\* update-plan calls ran and however they interleaved.
C1_CreditsNonNegative ==
    \A u \in DOMAIN users :
        users[u].credits_left \in Int /\ users[u].credits_left >= 0

\* a decrement that read balance 0 has written, and the balance is 0
C1_Witness ==
    \E r \in Reqs : /\ req[r].decs = 1
                    /\ req[r].rd.credits_left = 0
                    /\ users[req[r].user_id].credits_left = 0

\* C2: for a free-plan user with balance b, at most b chat requests are past
\* the credit check waiting for their decrement (with b = 1, a second
\* concurrent request is not admitted).
C2_AtMostBalanceAdmitted ==
    \A u \in DOMAIN users :
        users[u].plan = "free" =>
            Cardinality({r \in Reqs : req[r].user_id = u /\ Admitted(r)})
                <= users[u].credits_left

\* the webhook has written its grant for the user of turn r after r's
\* decrement read the row
HookWroteSinceRead(r) ==
    /\ hook.pc = "idle" /\ hook.resp = 200 /\ hook.plan \in Paid
    /\ hook.user_id = req[r].user_id
    /\ users[req[r].user_id] =
           [plan |-> hook.plan, credits_left |-> PLAN_CREDITS(hook.plan)]
    /\ users[req[r].user_id] # req[r].rd

SpentLastCredit(u) ==
    \E q \in Reqs : /\ req[q].user_id = u /\ Decremented(q)
                    /\ req[q].decs = 1 /\ req[q].rd.credits_left = 1

\* C4: a free-plan user's chat turn that ran its decrement performed exactly
\* one decrement write, whatever the number of chunks; and once a turn has
\* spent the user's last credit (balance 1 -> 0), the next chat attempt of
\* that user is answered with InsufficientCredits (402).
C4_OneDecrementPerTurn ==
    [][\A r \in Reqs :
          /\ (Decremented(r)' /\ req'[r].rd.plan = "free") => req'[r].decs = 1
          /\ (/\ req[r].pc = "mw_credit" /\ req'[r].pc # "mw_credit"
              /\ users[req[r].user_id].plan = "free"
              /\ users[req[r].user_id].credits_left = 0
              /\ SpentLastCredit(req[r].user_id))
             => (req'[r].pc = "done" /\ req'[r].resp = 402)]_vars

\* the part of C4 about the number of decrements, on its own
C4_ExactlyOneDecrement ==
    \A r \in Reqs :
        /\ (Decremented(r) /\ req[r].rd.plan = "free") => req[r].decs = 1
        /\ (Decremented(r) /\ req[r].rd.plan \in Paid) => req[r].decs = 0
        /\ ~Decremented(r) => req[r].decs = 0

\* C5: a chat attempt of a user with plan free and credits_left 0 is
\* rejected with InsufficientCredits (402) and leaves the users table as it
\* was.
C5_ZeroCreditsRejected402 ==
    [][\A r \in Reqs :
          (/\ req[r].pc \in {"mw_credit", "check"}
           /\ req'[r].pc # req[r].pc
           /\ users[req[r].user_id].plan = "free"
           /\ users[req[r].user_id].credits_left = 0)
          => (req'[r].pc = "done" /\ req'[r].resp = 402 /\ users' = users)]_vars

\* the part of C5 about the ledger, on its own: the attempt is rejected and
\* writes nothing
C5_ZeroCreditsRejectedNoWrite ==
    [][\A r \in Reqs :
          (/\ req[r].pc \in {"mw_credit", "check"}
           /\ req'[r].pc # req[r].pc
           /\ users[req[r].user_id].plan = "free"
           /\ users[req[r].user_id].credits_left = 0)
          => (req'[r].pc = "done" /\ req'[r].ending = "rejected"
              /\ users' = users /\ messages' = messages)]_vars

C7_DecrementFloor ==
    [][\A uid \in DecrementUsers :
          DecrementCall(uid) =>
             IF uid \notin DOMAIN users
             THEN decRes'.err = "404" /\ users' = users
             ELSE /\ decRes'.err = "none"
                  /\ users[uid].plan = "free" =>
                       LET b == users[uid].credits_left
                           v == IF b >= 1 THEN b - 1 ELSE 0
                       IN /\ decRes'.ret = v
                          /\ users' = [users EXCEPT ![uid].credits_left = v]]_vars

\* a decrement at balance 0 returned 0 and the stored balance is 0
C7_Witness ==
    /\ decRes.uid \in DOMAIN users
    /\ decRes.plan = "free" /\ decRes.before = 0 /\ decRes.ret = 0
    /\ users[decRes.uid].credits_left = 0

\* C8: once a chat turn that inserted an assistant placeholder is over
\* (stream completed, provider error, or client disconnect), the placeholder
\* has received its final content.
C8_PlaceholderTerminal ==
    \A r \in Reqs :
        (req[r].pc = "done" /\ req[r].ai_message_id # NoId) =>
            \E m \in StoredMessage(req[r].ai_message_id) : m.finalized

Position(s, id) == CHOOSE i \in 1..Len(s) : s[i].id = id
Listed(s, id) == \E i \in 1..Len(s) : s[i].id = id
Labels(r) == {req[r].log[i] : i \in 1..Len(req[r].log)}
FirstAt(r, label) ==
    CHOOSE i \in 1..Len(req[r].log) : req[r].log[i] = label

C10_DecrementAfterFinalize ==
    \A r \in Reqs :
        req[r].decs >= 1 =>
            \E m \in StoredMessage(req[r].ai_message_id) : m.finalized

Rank(label) ==
    CASE label = "check" -> 1
      [] label = "conversation" -> 2
      [] label = "user_message" -> 3
      [] label = "decrement" -> 4
      [] label = "placeholder" -> 5
      [] label = "chunk" -> 6
      [] label = "finalize" -> 7

\* C10 amended: the steps of a chat turn occur in the order credit check,
\* ensure conversation, persist user message, decrement the credit balance,
\* insert the assistant placeholder, stream the chunks, persist the final
\* assistant message; the credit is decremented before the stream starts.
C10_StepOrder ==
    \A r \in Reqs :
        LET log == req[r].log IN
        /\ \A i \in 1..Len(log) :
              IF i = 1 THEN Rank(log[i]) = 1
              ELSE \/ Rank(log[i]) = Rank(log[i - 1]) + 1
                   \/ Rank(log[i]) = 6 /\ Rank(log[i - 1]) = 6
                   \/ Rank(log[i]) = 7 /\ Rank(log[i - 1]) = 5
        /\ req[r].ai_message_id # NoId => "decrement" \in Labels(r)
        /\ req[r].decs >= 1 => "decrement" \in Labels(r)

\* a free user's turn streamed chunks and persisted its final message after
\* its single decrement
C10_Witness ==
    \E r \in Reqs :
        /\ req[r].pc = "done" /\ req[r].ending = "completed"
        /\ req[r].decs = 1 /\ Len(req[r].full_response) >= 1
        /\ \E m \in StoredMessage(req[r].ai_message_id) : m.finalized

\* C11: under every interleaving of chat turns, also on one conversation,
\* the finalize update of a turn writes only the placeholder that this turn
\* inserted, the content it stores is the concatenation of this turn's own
\* chunks, and no step changes a stored user message.
C11_NoCorruption ==
    [][/\ \A m \in messages : m.is_user => m \in messages'
       /\ \A r \in Reqs :
            (req[r].pc = "stream" /\ req'[r].pc = "emit_done") =>
               /\ req[r].ai_message_id = uuid4(req[r].n, 2)
               /\ \A m \in messages :
                     m.id # req[r].ai_message_id => m \in messages'
               /\ \A m \in StoredMessage(req[r].ai_message_id)' :
                     /\ m.content = req[r].full_response
                     /\ m.content = req[r].out
                     /\ ~m.is_user]_vars

\* two turns stream on the same conversation; one has stored its final
\* content while the other, with chunks received, still has its empty
\* placeholder
C11_Witness ==
    \E r, q \in Reqs :
        /\ r # q /\ req[r].conversation_id = req[q].conversation_id
        /\ req[r].pc = "emit_done" /\ req[q].pc = "stream"
        /\ Len(req[r].full_response) >= 1 /\ Len(req[q].full_response) >= 1
        /\ \E m \in StoredMessage(req[r].ai_message_id) :
              m.content = req[r].full_response
        /\ \E m \in StoredMessage(req[q].ai_message_id) : m.content = <<>>

\* the webhook handler returns in this step
HookReturns == hook.pc = "update" \/ (hook.pc = "idle" /\ hook' # hook)

\* the payload just handled names charge.success, a user row and a paid plan
PaidCharge(h) ==
    /\ h.event = "charge.success"
    /\ h.user_id \in DOMAIN users /\ h.plan \in Paid

SubscriptionRow(tbl, id) == {s \in tbl : s.id = id}

\* C12: when the handler returns for a webhook with event charge.success and
\* metadata (user_id = U, plan = P), U's plan is P, U's balance is the grant
\* of P, and a Subscription row for U exists with status active and
\* end_date = start_date + 30 days (monthly) or + 365 days (annual).
C12_WebhookAppliesGrant ==
    [][(HookReturns /\ hook'.pc = "idle" /\ PaidCharge(hook')) =>
          /\ users'[hook'.user_id] =
                [plan |-> hook'.plan, credits_left |-> PLAN_CREDITS(hook'.plan)]
          /\ \E s \in SubscriptionRow(subscriptions', hook'.sub_id) :
                /\ s.user_id = hook'.user_id /\ s.status = "active"
                /\ s.end_date = s.start_date +
                      (IF hook'.plan = "monthly" THEN 30 ELSE 365)]_vars

\* the part of C12 that holds: a handler that reaches its users update
\* resets plan and balance to the grant whatever the previous balance was,
\* and every Subscription row is active with the window of its plan
C12_AppliedGrantIsReset ==
    [][/\ (hook.pc = "update" /\ hook'.applied
             /\ hook.user_id \in DOMAIN users) =>
             users'[hook.user_id] =
                [plan |-> hook.plan, credits_left |-> PLAN_CREDITS(hook.plan)]
       /\ \A s \in subscriptions' :
             /\ s.status = "active" /\ s.plan \in Paid
             /\ s.end_date = s.start_date +
                   (IF s.plan = "monthly" THEN 30 ELSE 365)]_vars

\* the handler met an exception: the body is no JSON, the identifiers do not
\* parse, or a well-formed paid charge was not carried through to the end
HookFailure ==
    \/ hook.event = "not json"
    \/ /\ hook.event = "charge.success"
       /\ hook.user_id # NoId /\ hook.plan # ""
       /\ ~(hook.sub_id # NoId /\ hook.applied)

C12_ResetWitness ==
    /\ hook.pc = "idle" /\ hook.applied /\ hook.user_id \in DOMAIN users
    /\ users[hook.user_id] =
           [plan |-> hook.plan, credits_left |-> PLAN_CREDITS(hook.plan)]

InvalidPayload(event, user_id, plan) ==
    \/ event # "charge.success"
    \/ user_id = NoId \/ plan = ""
    \/ user_id = BadUuid \/ plan \notin Plans

\* C15: a payload whose event is not charge.success, or whose metadata lacks
\* user_id or plan, or whose user_id or plan is not valid, creates no
\* Subscription row and changes no user's plan or balance.
C15_InvalidPayloadNoEffect ==
    [][(hook.pc = "idle" /\ hook' # hook
          /\ InvalidPayload(hook'.event, hook'.user_id, hook'.plan)) =>
          /\ subscriptions' = subscriptions /\ users' = users
          /\ hook'.pc = "idle" /\ hook'.sub_id = NoId]_vars

\* a charge.success payload for a paid plan whose user_id is no UUID was
\* answered and left no row
C15_Witness ==
    /\ hook.pc = "idle" /\ hook.resp = 200
    /\ hook.event = "charge.success" /\ hook.user_id = BadUuid
    /\ hook.plan \in Paid /\ hook.sub_id = NoId
    /\ \A s \in subscriptions : s.user_id # BadUuid

\* the timestamps of an identity that lie within the last window
Remaining(user_id) == recent_requests(REQUEST_HISTORY, user_id, clock)

\* the middleware handles a request of user_id in this step
Dispatched(user_id) == rate' # rate /\ rate'.identity = user_id

\* C16: a request to a guarded path is rejected if and only if, after the
\* purge of the identity's timestamps that left the window, the number of
\* remaining timestamps is >= the threshold; a rejected request is answered
\* 429 with retry-after = 60 seconds, and an admitted request has recorded
\* now when it is passed on.
C16_RateLimitDecision ==
    [][\A user_id \in Identities :
          (RateDispatch(user_id) /\ rate'.identity = user_id) =>
             /\ rate'.limited <=> Len(Remaining(user_id)) >= rate_limit_per_minute
             /\ rate'.limited =>
                   /\ ~rate'.passed
                   /\ rate'.resp = 429 /\ rate'.retry_after = window_size
             /\ ~rate'.limited =>
                   /\ rate'.passed
                   /\ REQUEST_HISTORY'[user_id] = Append(Remaining(user_id), clock)]_vars

\* the part of C16 about the decision and the recorded history, on its own
C16_RejectIffFull ==
    [][\A user_id \in Identities :
          (RateDispatch(user_id) /\ rate'.identity = user_id) =>
             /\ rate'.limited <=> Len(Remaining(user_id)) >= rate_limit_per_minute
             /\ rate'.limited =>
                   (~rate'.passed /\ REQUEST_HISTORY'[user_id] = Remaining(user_id))
             /\ ~rate'.limited =>
                   /\ rate'.passed
                   /\ REQUEST_HISTORY'[user_id] = Append(Remaining(user_id), clock)]_vars

\* every recorded timestamp of user_id is a full window old
WindowElapsed(user_id) ==
    \A i \in 1..Len(HistoryOf(REQUEST_HISTORY, user_id)) :
        HistoryOf(REQUEST_HISTORY, user_id)[i] + window_size <= clock

\* C17: an identity with threshold admitted requests within the window is
\* answered RateLimited (429) with retry_after = 60, and once the window has
\* elapsed since its admitted requests its next request is admitted,
\* whatever the number of requests rejected in between.
C17_LimitThenRecover ==
    [][\A user_id \in Identities :
          (RateDispatch(user_id) /\ rate'.identity = user_id) =>
             /\ Len(Remaining(user_id)) >= rate_limit_per_minute =>
                   (rate'.resp = 429 /\ rate'.retry_after = window_size)
             /\ WindowElapsed(user_id) => rate'.passed]_vars

\* the part of C17 about the lockout, on its own: a rejected request records
\* nothing, and after a full window the next request is admitted
C17_RejectedDoNotExtend ==
    [][\A user_id \in Identities :
          (RateDispatch(user_id) /\ rate'.identity = user_id) =>
             /\ rate'.limited =>
                   (~rate'.passed /\ REQUEST_HISTORY'[user_id] = Remaining(user_id))
             /\ WindowElapsed(user_id) =>
                   (rate'.passed /\ REQUEST_HISTORY'[user_id] = <<clock>>)]_vars

\* an identity was rejected at the limit and, a window later, admitted again
C17_RecoverWitness ==
    /\ rate.passed /\ rate.rejected = 1 /\ rate.at >= window_size
    /\ REQUEST_HISTORY[rate.identity] = <<rate.at>>

\* C18: for a free-plan user, with more than 3 personas stored, list returns
\* 3 personas and returns the same 3 each time, get-by-id succeeds exactly
\* for the personas that list returned and is refused (402) for every other
\* stored persona; a paid-plan user is shown and can get every persona.
C18_ListGetConsistent ==
    [][\A u \in UserIds :
          LET v == view'[u] IN
          IF users[u].plan = "free"
          THEN /\ v.listed => Len(v.list) = FreePersonas
               /\ (view[u].listed /\ v.listed) => v.list = view[u].list
               /\ (v.listed /\ v.persona_id \in PersonaIds) =>
                     /\ v.persona_id \in Range(v.list) => v.resp = 200
                     /\ v.persona_id \notin Range(v.list) => v.resp = 402
          ELSE /\ v.listed => Range(v.list) = PersonaIds
               /\ v.persona_id \in PersonaIds => v.resp = 200]_vars

\* the part of C18 that holds: a free user is shown 3 distinct personas and
\* a paid user all of them, and a paid user can get every stored persona
C18_ThreeForFreeAllForPaid ==
    \A u \in UserIds :
        LET v == view[u] IN
        /\ v.listed =>
              /\ Range(v.list) \subseteq PersonaIds
              /\ Cardinality(Range(v.list)) = Len(v.list)
              /\ Len(v.list) = IF users[u].plan = "free" THEN FreePersonas
                               ELSE NPersonas
        /\ (users[u].plan \in Paid /\ v.persona_id \in PersonaIds) =>
              v.resp = 200
        /\ v.persona_id = UnknownPersona => v.resp = 404

\* the persona of turn r is stored and is none of those the persona list
\* showed to the free-plan user of the turn
OutsideFreeTier(r) ==
    /\ req[r].pc # "idle"
    /\ users[req[r].user_id].plan = "free"
    /\ view[req[r].user_id].listed
    /\ req[r].persona_id \in PersonaIds \ Range(view[req[r].user_id].list)

\* C19: a chat request of a free-plan user for a persona outside the
\* personas visible to the free tier is rejected: it persists no message,
\* requests no completion and decrements no credit.
C19_EntitlementBeforeChat ==
    \A r \in Reqs :
        OutsideFreeTier(r) =>
            /\ req[r].user_message_id = NoId /\ req[r].ai_message_id = NoId
            /\ req[r].decs = 0 /\ req[r].out = <<>>

\* C20: an evaluate request of a free-plan user, whatever the balance, is
\* answered PlanRestricted (402) before any completion call, writes no
\* PitchEvaluation row and leaves the users table as it was; an evaluation
\* answered 201 for a monthly or annual user has written exactly one row.
C20_PitchNeedsPaidPlan ==
    [][(pitch'.pc = "done" /\ pitch.pc # "done") =>
          IF users[pitch.user_id].plan = "free"
          THEN /\ pitch'.resp = 402 /\ pitch'.completions = 0
               /\ pitch_evaluations' = pitch_evaluations /\ users' = users
          ELSE pitch'.resp = 201 =>
                  Cardinality(pitch_evaluations') =
                      Cardinality(pitch_evaluations) + 1]_vars

\* the part of C20 that holds: a free user's request never reaches a
\* completion call, writes no row and leaves the ledger alone
C20_FreeNeverEvaluates ==
    [][(pitch'.pc = "done" /\ pitch.pc # "done"
          /\ users[pitch.user_id].plan = "free") =>
          /\ pitch'.resp \in {402, 500} /\ pitch'.completions = 0
          /\ pitch_evaluations' = pitch_evaluations /\ users' = users]_vars

\* what a paid user gets: no evaluation is ever answered 201 and no row is
\* ever written
C20_NoEvaluationSucceeds ==
    pitch.resp # 201 /\ pitch_evaluations = {}

\* the caller of the request in flight cannot be verified
AuthFails(a) ==
    \/ a.header # "Bearer"
    \/ a.token # "valid"
    \/ a.sub \notin DOMAIN users

\* C21: a request whose caller cannot be verified (no or non-Bearer header,
\* invalid or expired token, token without subject, subject with no user
\* row) is answered Unauthenticated (401), never another error class, and
\* the protected handler is not entered.
C21_AuthFailureIsUnauthenticated ==
    (auth.pc = "done" /\ AuthFails(auth)) =>
        (auth.resp = 401 /\ ~auth.entered)

\* what the code does guarantee: the handler is entered only for a verified
\* caller, and off the credit paths every failure but the missing user row
\* is answered 401
C21_HandlerNotEntered ==
    /\ auth.entered => ~AuthFails(auth)
    /\ (auth.pc = "done" /\ ~IsCreditPath(auth.path)
          /\ (auth.header # "Bearer" \/ auth.token # "valid"))
         => auth.resp = 401

\* C22: a transient provider error on a completion call (chat stream or
\* pitch evaluation) makes the call be attempted again, up to 3 attempts
\* in total: a call whose first attempt failed transiently ends either in
\* a success of a later attempt or, after the 3rd failed attempt, in
\* UpstreamUnavailable (503).
C22_TransientRetried ==
    (call.pc = "done" /\ call.first \in Transient) =>
        \/ (call.ok /\ call.attempts \in 2..MAX_RETRIES)
        \/ (~call.ok /\ call.attempts = MAX_RETRIES /\ call.status = 503)

\* what the code does: every completion call ends after its first attempt,
\* whatever that attempt raised
C22_SingleAttempt ==
    call.pc = "done" => (call.attempts = 1 /\ call.first = call.last)

\* C23: a non-transient provider error (bad request, authentication
\* misconfiguration) ends the call after exactly one attempt and is
\* surfaced as an error class no transient failure of the same call is
\* surfaced as.
C23_NonTransientDistinct ==
    /\ (call.pc = "done" /\ call.first \in NonTransient) =>
          (call.attempts = 1 /\ ~call.ok)
    /\ \A a, b \in surfaced :
          (a.via = b.via /\ a.class = "non-transient" /\ b.class = "transient")
             => <<a.status, a.detail>> # <<b.status, b.detail>>

\* what holds: one attempt for a non-transient error, and _make_api_request
\* tells its errors apart
C23_OneAttemptAndDistinctInMakeApiRequest ==
    /\ (call.pc = "done" /\ call.first \in NonTransient) =>
          (call.attempts = 1 /\ ~call.ok)
    /\ \A a, b \in surfaced :
          (a.via = "_make_api_request" /\ b.via = a.via
             /\ a.class = "non-transient" /\ b.class = "transient")
             => <<a.status, a.detail>> # <<b.status, b.detail>>

\* the turn in slot r has read its history and built its prompt
PromptBuilt(r) == req[r].pc \in {"gen_start", "stream", "emit_done"}

\* the messages that were in the turn's conversation before the turn's own
\* user message, in creation order
PriorMessages(r) ==
    LET own == CHOOSE m \in messages : m.id = req[r].user_message_id
    IN SortByCreatedAt({m \in messages :
                          /\ m.conversation_id = req[r].conversation_id
                          /\ m.created_at < own.created_at})

\* C24: the prompt of a chat turn is the persona's template as the system
\* entry, then the (at most 10) most recent messages that were in the same
\* conversation before the turn, in creation order with role user or
\* assistant from is_user, then the new user message once, as last entry.
C24_PromptHasRecentHistory ==
    \A r \in Reqs :
       PromptBuilt(r) =>
          Prompt(r) = format_conversation_history(
                         req[r].persona_id, req[r].message, PriorMessages(r))

\* what the code builds: the system entry and the new user message, with
\* no earlier message between them, whatever the conversation holds
C24_PromptWithoutHistory ==
    \A r \in Reqs :
       PromptBuilt(r) =>
          Prompt(r) = <<[role |-> "system",
                         content |-> prompt_template(req[r].persona_id)],
                        [role |-> "user", content |-> req[r].message]>>

\* the number of [DONE] items in what a turn has emitted
Sentinels(out) == Cardinality({i \in DOMAIN out : out[i] = "[DONE]"})

C26_RejectedBeforeAnyRead ==
    pipe.limited => (pipe.reads = 0 /\ pipe.idp = 0)

\* what holds: off the credit paths a rejected request has read nothing
C26_RejectedBeforeAnyReadOffCreditPaths ==
    (pipe.limited /\ ~IsCreditPath(pipe.path)) =>
        (pipe.reads = 0 /\ pipe.idp = 0)

\* the messages of conversation c in table tbl
MessagesOf(tbl, c) == {m \in tbl : m.conversation_id = c}

\* the conversation of the delete request is the requesting user's
DeleteOwned ==
    \E cv \in conversations :
        cv.id = del.conversation_id /\ cv.user_id = del.user_id

\* C27: a delete removes the conversation's messages before the conversation
\* row: the step that removes the messages leaves the row in place and none of
\* its messages, a row disappears only in the later step of a delete by its
\* owner and then no message names it, a failure of that later step changes
\* neither table, and a delete of a conversation that is unknown or another
\* user's answers 404 and deletes nothing
C27_MessagesBeforeRowAndNotFound ==
    [][/\ (del.pc = "messages" /\ del'.pc = "row")
            => /\ MessagesOf(messages', del.conversation_id) = {}
               /\ conversations' = conversations
               /\ DeleteOwned
       /\ \A cv \in conversations \ conversations' :
            \/ \E nv \in conversations' : nv.id = cv.id
            \/ /\ del.pc = "row" /\ del'.resp = 204
               /\ cv.id = del.conversation_id /\ cv.user_id = del.user_id
               /\ MessagesOf(messages', cv.id) = {}
       /\ \A m \in messages \ messages' :
            \/ \E nm \in messages' : nm.id = m.id
            \/ (del.pc = "messages" /\ m.conversation_id = del.conversation_id)
       /\ (del.pc = "row" /\ del'.resp = 500)
            => /\ conversations' = conversations /\ messages' = messages
               /\ DeleteOwned
       /\ (del.pc = "verify" /\ ~DeleteOwned)
            => (del'.pc = "verify"
                \/ /\ del'.pc = "done" /\ del'.resp = 404
                   /\ conversations' = conversations /\ messages' = messages)
       /\ (del.pc = "verify" /\ del'.pc = "messages") => DeleteOwned
       /\ \A m \in messages' :
            \E cv \in conversations' : cv.id = m.conversation_id]_vars

\* a delete failed between its two steps: the row is there without messages
C27_Witness ==
    /\ del.pc = "done" /\ del.resp = 500 /\ del.at = "row"
    /\ DeleteOwned
    /\ MessagesOf(messages, del.conversation_id) = {}

\* C28: every stored message names an existing conversation and carries that
\* conversation's user and persona
C28_MessagesBoundToConversation ==
    \A m \in messages :
        \E cv \in conversations :
            /\ cv.id = m.conversation_id
            /\ cv.user_id = m.user_id
            /\ cv.persona_id = m.persona_id

\* C28, the part the foreign key gives: every stored message names an
\* existing conversation, also while a delete of it runs
C28_MessagesNameExistingConversation ==
    \A m \in messages : ConversationExists(m.conversation_id)

\* C28, the last-activity part: a chat turn touches last_message_at only of a
\* conversation of its own user and persona
C28_ActivityOnlyOnOwnConversation ==
    [][\A cv \in conversations, nv \in conversations' :
          (cv.id = nv.id /\ cv.last_message_at # nv.last_message_at)
            => \E r \in Reqs :
                  /\ req[r].pc = "conv"
                  /\ cv.user_id = req[r].user_id
                  /\ cv.persona_id = req[r].persona_id]_vars

C30_HistoryBoundedAndIndependent ==
    [][/\ \A i \in DOMAIN REQUEST_HISTORY' :
            Len(REQUEST_HISTORY'[i]) <= rate_limit_per_minute
       /\ \A a \in Identities :
            ((rate' # rate \/ REQUEST_HISTORY' # REQUEST_HISTORY)
             /\ rate'.identity = a)
              => /\ \A b \in Identities \ {a} :
                      HistoryOf(REQUEST_HISTORY', b)
                         = HistoryOf(REQUEST_HISTORY, b)
                 /\ rate'.limited
                      <=> Len(SelectSeq(HistoryOf(REQUEST_HISTORY, a),
                                        LAMBDA ts : ts > clock - window_size))
                             >= rate_limit_per_minute
                 /\ \A k \in 1..Len(HistoryOf(REQUEST_HISTORY', a)) :
                      HistoryOf(REQUEST_HISTORY', a)[k] > clock - window_size
       ]_vars

\* the signed-in identity is rejected on a full history while the anonymous
\* identity has requests of its own on record
C30_Witness ==
    /\ rate.identity = "Bearer t" /\ rate.limited
    /\ Len(HistoryOf(REQUEST_HISTORY, "Bearer t")) = rate_limit_per_minute
    /\ Len(HistoryOf(REQUEST_HISTORY, "anon:h")) \in 1..(rate_limit_per_minute - 1)

====
